---- MODULE Spec2Model ----
(***************************************************************************)
(* Label realignment and evaluation filtering of the token-classification  *)
(* notebook 3c_ft_hf_token_classification.ipynb.                           *)
(*                                                                         *)
(*   preprocess_dataset  (lines 185-224): for every example of a batch it  *)
(*       walks the tokenizer's word_ids and builds the per-token labels.   *)
(*   compute_metrics     (lines 362-387): drops the positions labelled     *)
(*       -100 from the labels and the predictions before scoring.          *)
(*                                                                         *)
(* An invocation of preprocess_dataset is a process p; its locals are the  *)
(* p-th components of the variables below.  Python lists are sequences     *)
(* (1-based here, 0-based in the source).                                  *)
(***************************************************************************)
EXTENDS Integers, Sequences, FiniteSets, TLC

\* ------------------------------------------------------------------ bounds
MaxWords == 2
MaxTokens == 3
NumLabels == 2
MaxBatch == 2

\* ------------------------------------------------------- program constants
\* the label value the loss and the metric skip (lines 214, 218, 366, 372)
IGNORE == -100
\* Python's None, the word id of a special token (line 213); no word index
None == 999

\* ----------------------------------------------------------------- domains
Seqs(S, n) == UNION {[1..k -> S] : k \in 0..n}

\* ids of the label enumeration (line 100: enumerate(...names))
LabelIds == 0..(NumLabels - 1)

\* entries a token-to-word map may hold: in range, above, and below zero
WordIdx == (-2)..MaxWords

Examples ==
    {[L |-> l, M |-> m] : l \in Seqs(LabelIds, MaxWords),
                          m \in Seqs(WordIdx \cup {None}, MaxTokens)}

InRange(L, M) ==
    \A t \in 1..Len(M) : M[t] = None \/ (0 <= M[t] /\ M[t] < Len(L))

\* the smaller examples used where several examples are in play at once
SmallExamples ==
    {e \in Examples : /\ InRange(e.L, e.M)
                      /\ Len(e.L) <= MaxWords - 1
                      /\ Len(e.M) <= MaxTokens - 2}

\* ------------------------------------------------------------ Python lists
\* lst[i] of a Python list: 0-based, a negative i counts from the end, and
\* anything else raises IndexError (line 216: ner_tag[word_idx])
PyGetItem(lst, i) ==
    IF 0 <= i /\ i < Len(lst) THEN [raised |-> FALSE, val |-> lst[i + 1]]
    ELSE IF i < 0 /\ 0 - Len(lst) <= i
         THEN [raised |-> FALSE, val |-> lst[Len(lst) + i + 1]]
    ELSE [raised |-> TRUE, val |-> 0]

\* ---------------------------------------------------------------- realigner
VARIABLES pc, nbatch, ner_idx, ner_tag, word_ids, pos, prev_idx,
          single_new_ner_tag, all_new_ner_tags, labels

\* compute_metrics: its position, its two arguments' parts and its locals
VARIABLES mpc, eval_labels, predictions, true_labels, true_predictions

align_vars == <<pc, nbatch, ner_idx, ner_tag, word_ids, pos, prev_idx,
                single_new_ner_tag, all_new_ner_tags, labels>>
metric_vars == <<mpc, eval_labels, predictions, true_labels, true_predictions>>
vars == <<align_vars, metric_vars>>

Procs == DOMAIN pc

\* body of the inner loop, lines 213-218: what is appended for word_idx
AlignTokenEverySubword(tags, prev, word_idx) ==
    IF word_idx = None THEN [raised |-> FALSE, val |-> IGNORE]
    ELSE PyGetItem(tags, word_idx)

AlignTokenZeroForSpecial(tags, prev, word_idx) ==
    IF word_idx = None THEN [raised |-> FALSE, val |-> 0]
    ELSE IF prev # word_idx THEN PyGetItem(tags, word_idx)
    ELSE [raised |-> FALSE, val |-> IGNORE]

AlignToken(tags, prev, word_idx) ==
    IF word_idx = None THEN [raised |-> FALSE, val |-> IGNORE]
    ELSE IF prev # word_idx THEN PyGetItem(tags, word_idx)
    ELSE [raised |-> FALSE, val |-> IGNORE]

\* lines 193-195: the state of an invocation before its loop over examples
InitProcs(P, sizes) ==
    /\ pc = [p \in P |-> "for_example"]
    /\ nbatch \in [P -> sizes]
    /\ ner_idx = [p \in P |-> -1]
    /\ ner_tag = [p \in P |-> << >>]
    /\ word_ids = [p \in P |-> << >>]
    /\ pos = [p \in P |-> 0]
    /\ prev_idx = [p \in P |-> None]
    /\ single_new_ner_tag = [p \in P |-> << >>]
    /\ all_new_ner_tags = [p \in P |-> << >>]
    /\ labels = [p \in P |-> << >>]

\* compute_metrics has not been called
MetricsIdle ==
    /\ mpc = "idle"
    /\ eval_labels = << >>
    /\ predictions = << >>
    /\ true_labels = << >>
    /\ true_predictions = << >>

\* lines 197, 205-207 without line 206, prev_idx set once before the loop
StartExampleNoReset(p, D) ==
    /\ pc[p] = "for_example"
    /\ ner_idx[p] + 1 < nbatch[p]
    /\ \E e \in D :
          /\ ner_tag' = [ner_tag EXCEPT ![p] = e.L]
          /\ word_ids' = [word_ids EXCEPT ![p] = e.M]
    /\ ner_idx' = [ner_idx EXCEPT ![p] = @ + 1]
    /\ single_new_ner_tag' = [single_new_ner_tag EXCEPT ![p] = << >>]
    /\ pos' = [pos EXCEPT ![p] = 0]
    /\ pc' = [pc EXCEPT ![p] = "for_token"]
    /\ UNCHANGED <<nbatch, prev_idx, all_new_ner_tags, labels>>
    /\ UNCHANGED metric_vars

\* lines 197, 205-207: the next example of the batch; the tokenizer's
\* word_ids and the example's tags are the inputs, drawn from D
StartExample(p, D) ==
    /\ pc[p] = "for_example"
    /\ ner_idx[p] + 1 < nbatch[p]
    /\ \E e \in D :
          /\ ner_tag' = [ner_tag EXCEPT ![p] = e.L]
          /\ word_ids' = [word_ids EXCEPT ![p] = e.M]
    /\ ner_idx' = [ner_idx EXCEPT ![p] = @ + 1]
    /\ prev_idx' = [prev_idx EXCEPT ![p] = None]
    /\ single_new_ner_tag' = [single_new_ner_tag EXCEPT ![p] = << >>]
    /\ pos' = [pos EXCEPT ![p] = 0]
    /\ pc' = [pc EXCEPT ![p] = "for_token"]
    /\ UNCHANGED <<nbatch, all_new_ner_tags, labels>>
    /\ UNCHANGED metric_vars

\* lines 212-219 with the special tokens dropped instead of labelled -100
StepTokenSkipSpecial(p) ==
    /\ pc[p] = "for_token"
    /\ pos[p] < Len(word_ids[p])
    /\ LET word_idx == word_ids[p][pos[p] + 1]
           r == AlignToken(ner_tag[p], prev_idx[p], word_idx)
       IN IF r.raised
          THEN /\ pc' = [pc EXCEPT ![p] = "IndexError"]
               /\ UNCHANGED <<pos, prev_idx, single_new_ner_tag>>
          ELSE /\ single_new_ner_tag' =
                     [single_new_ner_tag EXCEPT ![p] =
                         IF word_idx = None THEN @ ELSE Append(@, r.val)]
               /\ prev_idx' = [prev_idx EXCEPT ![p] = word_idx]
               /\ pos' = [pos EXCEPT ![p] = @ + 1]
               /\ UNCHANGED pc
    /\ UNCHANGED <<nbatch, ner_idx, ner_tag, word_ids, all_new_ner_tags, labels>>
    /\ UNCHANGED metric_vars

\* lines 212-219 with prev_idx a module-level name that every invocation
\* assigns, instead of a local of the call
StepTokenSharedPrev(p) ==
    /\ pc[p] = "for_token"
    /\ pos[p] < Len(word_ids[p])
    /\ LET word_idx == word_ids[p][pos[p] + 1]
           r == AlignToken(ner_tag[p], prev_idx[p], word_idx)
       IN IF r.raised
          THEN /\ pc' = [pc EXCEPT ![p] = "IndexError"]
               /\ UNCHANGED <<pos, prev_idx, single_new_ner_tag>>
          ELSE /\ single_new_ner_tag' =
                     [single_new_ner_tag EXCEPT ![p] = Append(@, r.val)]
               /\ prev_idx' = [q \in Procs |-> word_idx]
               /\ pos' = [pos EXCEPT ![p] = @ + 1]
               /\ UNCHANGED pc
    /\ UNCHANGED <<nbatch, ner_idx, ner_tag, word_ids, all_new_ner_tags, labels>>
    /\ UNCHANGED metric_vars

\* lines 212-219 with line 219 run for word tokens only, so that prev_idx
\* keeps the last word index across a special token
StepTokenPrevSkipsSpecial(p) ==
    /\ pc[p] = "for_token"
    /\ pos[p] < Len(word_ids[p])
    /\ LET word_idx == word_ids[p][pos[p] + 1]
           r == AlignToken(ner_tag[p], prev_idx[p], word_idx)
       IN IF r.raised
          THEN /\ pc' = [pc EXCEPT ![p] = "IndexError"]
               /\ UNCHANGED <<pos, prev_idx, single_new_ner_tag>>
          ELSE /\ single_new_ner_tag' =
                     [single_new_ner_tag EXCEPT ![p] = Append(@, r.val)]
               /\ prev_idx' = [prev_idx EXCEPT ![p] =
                                  IF word_idx = None THEN @ ELSE word_idx]
               /\ pos' = [pos EXCEPT ![p] = @ + 1]
               /\ UNCHANGED pc
    /\ UNCHANGED <<nbatch, ner_idx, ner_tag, word_ids, all_new_ner_tags, labels>>
    /\ UNCHANGED metric_vars

\* lines 212-219: one iteration of the loop over word_ids
StepToken(p) ==
    /\ pc[p] = "for_token"
    /\ pos[p] < Len(word_ids[p])
    /\ LET word_idx == word_ids[p][pos[p] + 1]
           r == AlignToken(ner_tag[p], prev_idx[p], word_idx)
       IN IF r.raised
          THEN /\ pc' = [pc EXCEPT ![p] = "IndexError"]
               /\ UNCHANGED <<pos, prev_idx, single_new_ner_tag>>
          ELSE /\ single_new_ner_tag' =
                     [single_new_ner_tag EXCEPT ![p] = Append(@, r.val)]
               /\ prev_idx' = [prev_idx EXCEPT ![p] = word_idx]
               /\ pos' = [pos EXCEPT ![p] = @ + 1]
               /\ UNCHANGED pc
    /\ UNCHANGED <<nbatch, ner_idx, ner_tag, word_ids, all_new_ner_tags, labels>>
    /\ UNCHANGED metric_vars

\* line 220: the loop over word_ids is exhausted
AppendExample(p) ==
    /\ pc[p] = "for_token"
    /\ pos[p] = Len(word_ids[p])
    /\ all_new_ner_tags' =
          [all_new_ner_tags EXCEPT ![p] = Append(@, single_new_ner_tag[p])]
    /\ pc' = [pc EXCEPT ![p] = "for_example"]
    /\ UNCHANGED <<nbatch, ner_idx, ner_tag, word_ids, pos, prev_idx,
                   single_new_ner_tag, labels>>
    /\ UNCHANGED metric_vars

\* lines 223-224: the loop over examples is exhausted
Return(p) ==
    /\ pc[p] = "for_example"
    /\ ner_idx[p] + 1 = nbatch[p]
    /\ labels' = [labels EXCEPT ![p] = <<all_new_ner_tags[p]>>]
    /\ pc' = [pc EXCEPT ![p] = "done"]
    /\ UNCHANGED <<nbatch, ner_idx, ner_tag, word_ids, pos, prev_idx,
                   single_new_ner_tag, all_new_ner_tags>>
    /\ UNCHANGED metric_vars

\* one invocation on a batch of one example, any token-to-word map
Init == InitProcs({1}, {1}) /\ MetricsIdle

Next ==
    \/ \E p \in Procs : StartExample(p, Examples)
    \/ \E p \in Procs : StepToken(p)
    \/ \E p \in Procs : AppendExample(p)
    \/ \E p \in Procs : Return(p)

Spec == Init /\ [][Next]_vars

\* the same invocation on the worked example of the notebook's comment
\* (line 211, word ids counted from 0) and on every window of its map
Scenario2L == <<1, 2, 3, 4, 5, 6>>
Scenario2M == <<None, 0, 1, 1, 2, 2, 2, 3, 4, 5, 5, 5, None>>
ScenarioExamples ==
    {[L |-> Scenario2L, M |-> SubSeq(Scenario2M, i, j)] :
        i \in 1..(Len(Scenario2M) + 1), j \in 0..Len(Scenario2M)}

NextScenario ==
    \/ \E p \in Procs : StartExample(p, ScenarioExamples)
    \/ \E p \in Procs : StepToken(p)
    \/ \E p \in Procs : AppendExample(p)
    \/ \E p \in Procs : Return(p)

SpecScenario == Init /\ [][NextScenario]_vars

\* one invocation on a batch of up to MaxBatch examples (datasets.map with
\* batched=True, line 227)
InitBatch == InitProcs({1}, 1..MaxBatch) /\ MetricsIdle

NextSmall ==
    \/ \E p \in Procs : StartExample(p, SmallExamples)
    \/ \E p \in Procs : StepToken(p)
    \/ \E p \in Procs : AppendExample(p)
    \/ \E p \in Procs : Return(p)

SpecBatch == InitBatch /\ [][NextSmall]_vars

\* two invocations, each on its own example, their steps interleaved
InitConcurrent == InitProcs({1, 2}, {1}) /\ MetricsIdle

SpecConcurrent == InitConcurrent /\ [][NextSmall]_vars

\* lines 206-219 for one example on its own, as a function of (L, M)
RECURSIVE WalkFrom(_, _, _, _, _)
WalkFrom(tags, ids, t, prev, out) ==
    IF t > Len(ids) THEN [raised |-> FALSE, val |-> out]
    ELSE LET r == AlignToken(tags, prev, ids[t])
         IN IF r.raised THEN [raised |-> TRUE, val |-> out]
            ELSE WalkFrom(tags, ids, t + 1, ids[t], Append(out, r.val))

RealignAlone(L, M) == WalkFrom(L, M, 1, None, << >>)

\* ------------------------------------------------------------ compute_metrics
\* the names of the dataset's label feature, and line 100's enumeration of them
feature_names == [k \in 1..NumLabels |-> <<"tag", k - 1>>]
id2label == [k \in LabelIds |-> feature_names[k + 1]]

\* d[k] of a Python dict: KeyError for a key it does not hold
DictGet(d, k) ==
    IF k \in DOMAIN d THEN [raised |-> FALSE, val |-> d[k]]
    ELSE [raised |-> TRUE, val |-> << >>]

\* np.argmax along the class axis: the first index holding the largest score
ArgMax(scores) ==
    CHOOSE k \in DOMAIN scores :
        /\ \A j \in DOMAIN scores : scores[j] <= scores[k]
        /\ \A j \in DOMAIN scores : j < k => scores[j] < scores[k]

Scores == {0, 1}
\* shapes (examples, padded length) of the arrays handed to compute_metrics
EvalShapes == {<<n, len>> : n \in 1..2, len \in 0..2}

Array(n, len, S) == [1..n -> [1..len -> S]]

Zip(a, b) ==
    [k \in 1..(IF Len(a) < Len(b) THEN Len(a) ELSE Len(b)) |-> <<a[k], b[k]>>]

\* line 366 with the padding value of the token ids, 0, as the value dropped
TrueLabelsRowDropsZero(label) ==
    LET kept == SelectSeq(label, LAMBDA l : l # 0)
    IN [k \in DOMAIN kept |-> DictGet(id2label, kept[k])]

\* line 366, one example: [id2label[l] for l in label if l != -100]
TrueLabelsRow(label) ==
    LET kept == SelectSeq(label, LAMBDA l : l # IGNORE)
    IN [k \in DOMAIN kept |-> DictGet(id2label, kept[k])]

\* line 372 filtering on the prediction instead of on the label
TruePredictionsRowOnPrediction(prediction, label) ==
    LET kept == SelectSeq(Zip(prediction, label), LAMBDA pl : pl[1] # IGNORE)
    IN [k \in DOMAIN kept |-> DictGet(id2label, kept[k][1])]

\* line 372, one example:
\* [id2label[p] for (p,l) in zip(prediction, label) if l != -100]
TruePredictionsRow(prediction, label) ==
    LET kept == SelectSeq(Zip(prediction, label), LAMBDA pl : pl[2] # IGNORE)
    IN [k \in DOMAIN kept |-> DictGet(id2label, kept[k][1])]

AnyRaised(rows) ==
    \E i \in DOMAIN rows : \E k \in DOMAIN rows[i] : rows[i][k].raised
Values(rows) ==
    [i \in DOMAIN rows |-> [k \in DOMAIN rows[i] |-> rows[i][k].val]]

\* line 363: the label array the trainer hands over
InitMetrics ==
    /\ InitProcs({}, {})
    /\ mpc = "argmax"
    /\ \E sh \in EvalShapes :
          eval_labels \in Array(sh[1], sh[2], LabelIds \cup {IGNORE})
    /\ predictions = << >>
    /\ true_labels = << >>
    /\ true_predictions = << >>

\* lines 363, 365: the scores are the model's output, of the labels' shape
Argmax ==
    /\ mpc = "argmax"
    /\ \E probs \in Array(Len(eval_labels), Len(eval_labels[1]),
                          [LabelIds -> Scores]) :
          predictions' =
              [i \in DOMAIN probs |->
                  [t \in DOMAIN probs[i] |-> ArgMax(probs[i][t])]]
    /\ mpc' = "true_labels"
    /\ UNCHANGED <<eval_labels, true_labels, true_predictions>>
    /\ UNCHANGED align_vars

\* line 366
TrueLabels ==
    /\ mpc = "true_labels"
    /\ LET rows == [i \in DOMAIN eval_labels |-> TrueLabelsRow(eval_labels[i])]
       IN IF AnyRaised(rows)
          THEN mpc' = "KeyError" /\ UNCHANGED true_labels
          ELSE mpc' = "true_predictions" /\ true_labels' = Values(rows)
    /\ UNCHANGED <<eval_labels, predictions, true_predictions>>
    /\ UNCHANGED align_vars

\* line 372
TruePredictions ==
    /\ mpc = "true_predictions"
    /\ LET z == Zip(predictions, eval_labels)
           rows == [i \in DOMAIN z |-> TruePredictionsRow(z[i][1], z[i][2])]
       IN IF AnyRaised(rows)
          THEN mpc' = "KeyError" /\ UNCHANGED true_predictions
          ELSE mpc' = "seqeval" /\ true_predictions' = Values(rows)
    /\ UNCHANGED <<eval_labels, predictions, true_labels>>
    /\ UNCHANGED align_vars

NextMetrics == Argmax \/ TrueLabels \/ TruePredictions

SpecMetrics == InitMetrics /\ [][NextMetrics]_vars

\* ------------------------------------------------------------------ claims
\* the example invocation p last read, and the labels it built for it
Returned(p) == pc[p] = "done"
\* the example has been walked to its end and its labels appended (line 220)
Appended(p) == pc[p] \in {"for_example", "done"} /\ ner_idx[p] >= 0
Aligned(p) == all_new_ner_tags[p][ner_idx[p] + 1]

\* positions i..j of M are a maximal run of one word index
IsMaxRun(M, i, j) ==
    /\ 1 <= i /\ i <= j /\ j <= Len(M)
    /\ M[i] # None
    /\ \A k \in i..j : M[k] = M[i]
    /\ (i = 1 \/ M[i - 1] # M[i])
    /\ (j = Len(M) \/ M[j + 1] # M[i])

C2_SentinelIsIgnore ==
    \A p \in Procs :
        /\ \A t \in 1..Len(single_new_ner_tag[p]) :
              (t <= Len(word_ids[p]) /\ word_ids[p][t] = None)
                  => single_new_ner_tag[p][t] = IGNORE
        /\ Appended(p) =>
              /\ Len(Aligned(p)) = Len(word_ids[p])
              /\ \A t \in 1..Len(word_ids[p]) :
                    word_ids[p][t] = None => Aligned(p)[t] = IGNORE

\* a finished example whose sentinel stands between two word runs
C2_Witness ==
    /\ Returned(1)
    /\ Len(word_ids[1]) = 3
    /\ word_ids[1][1] # None
    /\ word_ids[1][2] = None
    /\ word_ids[1][3] # None
    /\ Aligned(1)[2] = IGNORE

C4_OutOfRangeRaises ==
    \A p \in Procs :
        ~InRange(ner_tag[p], word_ids[p]) =>
            /\ ~Appended(p)
            /\ (pc[p] = "for_token" /\ pos[p] = Len(word_ids[p])) => FALSE

\* C9: with no words and a map of sentinels only, the walk never raises and
\* yields as many IGNORE as the map has entries.
C9_EmptyExampleAllIgnore ==
    \A p \in Procs :
        (ner_tag[p] = << >> /\ \A t \in 1..Len(word_ids[p]) : word_ids[p][t] = None)
            => /\ pc[p] # "IndexError"
               /\ Appended(p) => Aligned(p) = [t \in 1..Len(word_ids[p]) |-> IGNORE]

\* the empty example with a map of several sentinels has been returned
C9_Witness ==
    /\ Returned(1)
    /\ ner_tag[1] = << >>
    /\ Len(word_ids[1]) >= 2
    /\ \A t \in 1..Len(word_ids[1]) : word_ids[1][t] = None
    /\ labels[1] = << <<[t \in 1..Len(word_ids[1]) |-> IGNORE]>> >>

\* C5: in a batch, the labels of every example are those the walk gives for
\* that example on its own, from a fresh prev_idx and an empty list: they are
\* a function of the example's (L, M) only, whatever examples came before it.
C5_ExampleAloneDecides ==
    \A p \in Procs :
        LET alone == RealignAlone(ner_tag[p], word_ids[p])
        IN /\ pc[p] = "for_token" =>
                 /\ pos[p] <= Len(alone.val)
                 /\ single_new_ner_tag[p] = SubSeq(alone.val, 1, pos[p])
           /\ Appended(p) =>
                 /\ ~alone.raised
                 /\ Len(all_new_ner_tags[p]) = ner_idx[p] + 1
                 /\ Aligned(p) = alone.val

\* a returned batch of two examples: the first ended on a labelled token of
\* word 0 and the second begins with word 0, labelled all the same
C5_Witness ==
    /\ Returned(1)
    /\ nbatch[1] = 2
    /\ Len(all_new_ner_tags[1][1]) = 1
    /\ all_new_ner_tags[1][1][1] # IGNORE
    /\ word_ids[1] = <<0>>
    /\ labels[1][1][2] = <<ner_tag[1][1]>>

\* the positions of an example that carry a true label, and the k-th of them
KeptPositions(label) == {t \in 1..Len(label) : label[t] # IGNORE}
KthKept(label, k) ==
    CHOOSE t \in KeptPositions(label) :
        Cardinality({u \in KeptPositions(label) : u <= t}) = k

\* C7: for every example the references and the predictions handed to the
\* metric keep exactly the positions whose true label is not IGNORE, in
\* order: both are as long as the number of such positions, their k-th
\* entries are the names of the label and of the prediction at the k-th such
\* position, and no lookup in id2label fails on IGNORE.
C7_FilterByTrueLabel ==
    /\ mpc # "KeyError"
    /\ mpc = "seqeval" =>
          /\ Len(true_labels) = Len(eval_labels)
          /\ Len(true_predictions) = Len(eval_labels)
          /\ \A i \in 1..Len(eval_labels) :
                LET n == Cardinality(KeptPositions(eval_labels[i]))
                IN /\ Len(true_labels[i]) = n
                   /\ Len(true_predictions[i]) = n
                   /\ \A k \in 1..n :
                         LET t == KthKept(eval_labels[i], k)
                         IN /\ true_labels[i][k] = id2label[eval_labels[i][t]]
                            /\ true_predictions[i][k] = id2label[predictions[i][t]]

\* a scored batch of two examples: one keeps only its second position, whose
\* prediction differs from the dropped one's, the other keeps both
C7_Witness ==
    /\ mpc = "seqeval"
    /\ Len(eval_labels) = 2
    /\ Len(eval_labels[1]) = 2
    /\ eval_labels[1][1] = IGNORE
    /\ eval_labels[1][2] # IGNORE
    /\ predictions[1][1] # predictions[1][2]
    /\ KeptPositions(eval_labels[2]) = {1, 2}
    /\ true_predictions[1] = <<id2label[predictions[1][2]]>>
    /\ Len(true_labels[2]) = 2

\* C8: the worked example: six labels on the first token of each word, IGNORE
\* on the other seven of the thirteen positions.
Scenario2A ==
    <<IGNORE, 1, 2, IGNORE, 3, IGNORE, IGNORE, 4, 5, 6, IGNORE, IGNORE, IGNORE>>

C10_InterleavingIndependent ==
    \A p \in Procs :
        /\ Returned(p) =>
              labels[p] = << <<RealignAlone(ner_tag[p], word_ids[p]).val>> >>
        /\ pc[p] = "for_token" => ENABLED (StepToken(p) \/ AppendExample(p))
        /\ pc[p] = "for_example" =>
              ENABLED (StartExample(p, SmallExamples) \/ Return(p))

\* invocation 2 has returned the label of its word 0 while invocation 1, on
\* another example, is inside its loop just after a token of its own word 0
C10_Witness ==
    /\ Returned(2)
    /\ word_ids[2] = <<0>>
    /\ labels[2] = << << <<ner_tag[2][1]>> >> >>
    /\ pc[1] = "for_token"
    /\ pos[1] = 1
    /\ prev_idx[1] = 0
    /\ ner_tag[1] # ner_tag[2]

\* C11: a run is delimited by the entry just before it only: when the word
\* index of a position also stands at an earlier position that is not the one
\* just before it (another word index or a sentinel lies between), the
\* position starts a run of its own and carries the word's label again.
C11_NonAdjacentRunsNotMerged ==
    \A p \in Procs :
        (Appended(p) /\ InRange(ner_tag[p], word_ids[p])) =>
            LET L == ner_tag[p]
                M == word_ids[p]
                A == Aligned(p)
            IN /\ Len(A) = Len(M)
               /\ \A t \in 2..Len(M) :
                     (/\ M[t] # None
                      /\ M[t - 1] # M[t]
                      /\ \E u \in 1..(t - 2) : M[u] = M[t])
                         => A[t] = L[M[t] + 1]

\* the map [0, 1, 0] has been walked: word 0 is labelled at both of its runs
C11_Witness ==
    /\ Returned(1)
    /\ word_ids[1] = <<0, 1, 0>>
    /\ Len(ner_tag[1]) = 2
    /\ Aligned(1) = <<ner_tag[1][1], ner_tag[1][2], ner_tag[1][1]>>

\* the words 0..k-1 each stand in M as exactly one run, in increasing order,
\* and no other word does
OneRunPerWord(M, k) ==
    /\ \A t \in 1..Len(M) : M[t] = None \/ (0 <= M[t] /\ M[t] < k)
    /\ \A t \in 1..Len(M) : \A u \in 1..t :
          (M[t] # None /\ M[u] # None) => M[u] <= M[t]
    /\ \A w \in 0..(k - 1) :
          Cardinality({i \in 1..Len(M) :
                          \E j \in i..Len(M) : IsMaxRun(M, i, j) /\ M[i] = w}) = 1

\* C12: when the words 0..k-1, k <= len(L), each stand in M as one run, in
\* order, the evaluation filter of line 366 applied to the aligned labels
\* looks up no IGNORE and gives the names of the first k labels of L, in
\* order; IGNORE is no key of id2label.
C12_FilterGivesBackLabels ==
    /\ IGNORE \notin DOMAIN id2label
    /\ \A p \in Procs : \A k \in 0..Len(ner_tag[p]) :
          (Appended(p) /\ OneRunPerWord(word_ids[p], k)) =>
              LET row == TrueLabelsRow(Aligned(p))
              IN /\ Len(row) = k
                 /\ \A i \in 1..Len(row) :
                       /\ ~row[i].raised
                       /\ row[i].val = id2label[ner_tag[p][i]]

\* a truncated example: one word of two, on two tokens after a special token
C12_Witness ==
    /\ Returned(1)
    /\ Len(ner_tag[1]) = 2
    /\ ner_tag[1][1] # ner_tag[1][2]
    /\ word_ids[1] = <<None, 0, 0>>
    /\ TrueLabelsRow(Aligned(1)) =
          <<[raised |-> FALSE, val |-> id2label[ner_tag[1][1]]]>>
====
